---- MODULE Spec2Model ----
(***************************************************************************)
(* The report pipeline of identity-reporting: the tabulate functions of    *)
(* the daily-auths, daily-dropoffs (funnel), daily-registrations and       *)
(* account-deletions reports, the funnel's toStepCounts and aggregate, the *)
(* row normalizers (process), formatData, loadData with its fetches,       *)
(* useQuery with its query keys, and ReportRoute.                          *)
(*                                                                         *)
(* A report is on screen (report), it holds the rows that were loaded      *)
(* (data), and rendering it calls one tabulate function with the filter    *)
(* arguments (args), which yields a table; toStepCounts of one funnel row   *)
(* yields stepCounts, any other function its result.  ReportRoute turns    *)
(* the props of the URL into the filter context; loadData issues fetches   *)
(* and returns a promise; useQuery remembers queries.  Strings are         *)
(* strings, a Date is its valueOf() in ticks (TicksPerDay ticks to a UTC   *)
(* day), a VNode is a record of its tag and the props the code sets, an    *)
(* absent field of an object is a field that the record does not have.     *)
(***************************************************************************)
EXTENDS Integers, Sequences, FiniteSets, TLC

VARIABLES report, data, called, args, table, stepCounts, result,
          props, context, fetches, promise, queries

\* What a load involves: the route's props, the filter context, the fetches of
\* a loadData batch, its promise, and the queries that useQuery remembers.
loadVars == <<props, context, fetches, promise, queries>>

vars == <<report, data, called, args, table, stepCounts, result, loadVars>>

(***************************************************************************)
(* Bounds of the model.                                                    *)
(***************************************************************************)
MaxRows == 2

Agencies == {"agency1", "agency2"}
Issuers == {"issuer1", "issuer2"}
Ials == {1, 2}
Times == {0, 1, 2}
Dates == 0..5
Envs == {"prod", "int"}
Counts == {1, 2}

(***************************************************************************)
(* JavaScript and d3 helpers.                                              *)
(***************************************************************************)

\* The strings of the model in the order of JavaScript's < on strings, which
\* is the order of d3-array's ascending; Rank(a) < Rank(b) iff ascending(a, b) < 0.
Lex == <<"", "(No Agency)", "(No App)", "(No Issuer)",
         "agency1", "agency2", "app1", "app2", "issuer1", "issuer2">>

Rank(s) == CHOOSE i \in 1..Len(Lex) : Lex[i] = s

\* Array.prototype.sort with a comparator that orders the elements by the
\* numbers keys[i] (keys[i] belongs to s[i]); the sort is stable.
sort(s, keys) ==
  LET n == Len(s)
      pos(i) == Cardinality({j \in 1..n : \/ keys[j] < keys[i]
                                          \/ (keys[j] = keys[i] /\ j < i)}) + 1
  IN  [m \in 1..n |-> s[CHOOSE i \in 1..n : pos(i) = m]]

\* The indices of S in ascending order.
indexSeq(S) ==
  [m \in 1..Cardinality(S) |->
     CHOOSE i \in S : Cardinality({j \in S : j < i}) = m - 1]

\* d3-array group(s, key): the entries of the resulting Map in its iteration
\* order, which is the order in which each key first occurs.  keys[i] is the
\* key of s[i].
group(s, keys) ==
  LET n == Len(s)
      first == indexSeq({i \in 1..n : \A j \in 1..(i - 1) : keys[j] # keys[i]})
      bin(k) == indexSeq({i \in 1..n : keys[i] = k})
  IN  [g \in 1..Len(first) |->
         [key |-> keys[first[g]],
          bin |-> [b \in 1..Len(bin(keys[first[g]])) |-> s[bin(keys[first[g]])[b]]]]]

\* Array.prototype.flat on an array of arrays (the second half of flatMap).
RECURSIVE flat(_)
flat(ss) == IF ss = <<>> THEN <<>> ELSE Head(ss) \o flat(Tail(ss))

\* reduce((d, total) => d + total, 0)
RECURSIVE sum(_)
sum(s) == IF s = <<>> THEN 0 ELSE Head(s) + sum(Tail(s))

\* Array.from(new Set(s)): the distinct elements in order of first occurrence.
distinct(s) ==
  LET first == indexSeq({i \in 1..Len(s) : \A j \in 1..(i - 1) : s[j] # s[i]})
  IN  [m \in 1..Len(first) |-> s[first[m]]]

(***************************************************************************)
(* daily-auths-report                                                      *)
(***************************************************************************)

\* Ticks of a Date's valueOf() in one UTC day.
TicksPerDay == 2

\* utcFormat("%Y-%m-%d"): the UTC calendar day of a Date as YYYY-MM-DD.
yearMonthDayFormat(date) == "2021-01-0" \o ToString((date \div TicksPerDay) + 1)

\* ProcessedResult; friendly_name is the name of the row's issuer.
friendlyNameOf(issuer) == IF issuer = "issuer1" THEN "app1" ELSE "app2"

ProcessedResult ==
  {[agency |-> a, issuer |-> i, friendly_name |-> friendlyNameOf(i),
    ial |-> l, date |-> t, count |-> c] :
      a \in Agencies, i \in Issuers, l \in Ials, t \in Times, c \in Counts}

\* data.filter((d) => d.date.valueOf() === date.valueOf())?.[0]?.count ?? 0
dayCount(bin, date) ==
  LET hits == SelectSeq(bin, LAMBDA d : d.date = date)
  IN  IF hits = <<>> THEN 0 ELSE hits[1].count

\* filterResults with the ial filter left out
filterResultsAgencyOnly(results, filterAgency, filterIal) ==
  SelectSeq(results, LAMBDA d : filterAgency = "" \/ d.agency = filterAgency)

\* (results || []).filter(...): an absent filter ("" or 0) is falsy
filterResults(results, filterAgency, filterIal) ==
  SelectSeq(results, LAMBDA d :
    /\ (filterAgency = "" \/ d.agency = filterAgency)
    /\ (filterIal = 0 \/ d.ial = filterIal))

\* daysOf without the sort
daysOfUnsorted(filteredResults) ==
  distinct([i \in 1..Len(filteredResults) |-> filteredResults[i].date])

\* Array.from(new Set(filteredResults.map(valueOf))).sort((a, b) => a - b)
daysOf(filteredResults) ==
  LET stamps == distinct([i \in 1..Len(filteredResults) |-> filteredResults[i].date])
  IN  sort(stamps, stamps)

\* tabulateHeader without the "Total" column
tabulateHeaderNoTotal(days) ==
  <<"Agency", "App", "IAL">> \o [i \in 1..Len(days) |-> yearMonthDayFormat(days[i])]

tabulateHeader(days) ==
  <<"Agency", "App", "IAL">>
    \o [i \in 1..Len(days) |-> yearMonthDayFormat(days[i])]
    \o <<"Total">>

\* sortedEntries without the sort
unsortedEntries(entries) == entries

\* Array.from(map).sort(([keyA], [keyB]) => ascending(keyA, keyB))
sortedEntries(entries) ==
  sort(entries, [i \in 1..Len(entries) |-> Rank(entries[i].key)])

tabulate(results, filterAgency, filterIal) ==
  LET filteredResults == filterResults(results, filterAgency, filterIal)
      days == daysOf(filteredResults)
      header == tabulateHeader(days)
      \* issuerToFriendlyName.set(d.issuer, d.friendly_name) for each row: the last wins
      issuerToFriendlyName(issuer) ==
        LET of == SelectSeq(filteredResults, LAMBDA d : d.issuer = issuer)
        IN  of[Len(of)].friendly_name
      byKey(rows, Key(_)) == group(rows, [i \in 1..Len(rows) |-> Key(rows[i])])
      row(agency, issuer, ial, bin) ==
        LET dayCounts == [i \in 1..Len(days) |-> dayCount(bin, days[i])]
        IN  <<agency,
              [tag |-> "span", title |-> issuer, text |-> issuerToFriendlyName(issuer)],
              ToString(ial)>>
              \o dayCounts \o <<sum(dayCounts)>>
      ofIssuer(agency, e) ==
        LET ials == byKey(e.bin, LAMBDA d : d.ial)
        IN  [i \in 1..Len(ials) |-> row(agency, e.key, ials[i].key, ials[i].bin)]
      ofAgency(e) ==
        LET issuers == sortedEntries(byKey(e.bin, LAMBDA d : d.issuer))
        IN  flat([i \in 1..Len(issuers) |-> ofIssuer(e.key, issuers[i])])
      grouped == sortedEntries(byKey(filteredResults, LAMBDA d : d.agency))
      body == flat([i \in 1..Len(grouped) |-> ofAgency(grouped[i])])
  IN  [header |-> header, body |-> body, footer |-> <<>>]

\* rollup(filteredResults, sum of count, agency, ial, yearMonthDayFormat(date)):
\* the innermost Map of one (agency, ial) bin, read at the key `label`; 0 stands
\* for undefined, which `|| 0` turns into 0 as well.
rolledupGet(bin, label) ==
  sum([i \in 1..Len(bin) |->
         IF yearMonthDayFormat(bin[i].date) = label THEN bin[i].count ELSE 0])

tabulateSumByAgency(results, filterIal) ==
  LET filteredResults == filterResults(results, "", filterIal)
      days == daysOf(filteredResults)
      header == <<"Agency", "IAL">>
                  \o [i \in 1..Len(days) |-> yearMonthDayFormat(days[i])]
                  \o <<"Total">>
      byKey(rows, Key(_)) == group(rows, [i \in 1..Len(rows) |-> Key(rows[i])])
      row(agency, ial, bin) ==
        LET dayCounts ==
              [i \in 1..Len(days) |-> rolledupGet(bin, yearMonthDayFormat(days[i]))]
        IN  <<[tag |-> "Link", href |-> [agency |-> agency], text |-> agency],
              ToString(ial)>>
              \o dayCounts \o <<sum(dayCounts)>>
      ofAgency(e) ==
        LET ials == byKey(e.bin, LAMBDA d : d.ial)
        IN  [i \in 1..Len(ials) |-> row(e.key, ials[i].key, ials[i].bin)]
      rolledup == sortedEntries(byKey(filteredResults, LAMBDA d : d.agency))
      body == flat([i \in 1..Len(rolledup) |-> ofAgency(rolledup[i])])
  IN  [header |-> header, body |-> body, footer |-> <<>>]

\* Date.prototype.toISOString of a tick; a tick is half a UTC day
toISOString(date) ==
  yearMonthDayFormat(date)
    \o (IF date % TicksPerDay = 0 THEN "T00:00:00.000Z" ELSE "T12:00:00.000Z")

\* new Date(str) of an ISO8601 string
newDate(str) == CHOOSE date \in Dates : toISOString(date) = str

\* A field of a fetched row: absent, empty, or one of values.
OptionalField(name, values) == {<<>>} \cup {name :> v : v \in values \cup {""}}

\* r[field] || otherwise
fieldOr(r, field, otherwise) ==
  IF field \in DOMAIN r /\ r[field] # "" THEN r[field] ELSE otherwise

\* A Result row of a fetched daily-auths report.
Result ==
  {[count |-> 1, ial |-> 1] @@ i @@ f @@ a :
     i \in OptionalField("issuer", {"issuer1"}),
     f \in OptionalField("friendly_name", {"app1"}),
     a \in OptionalField("agency", {"agency1"})}

DailyAuthsReportData ==
  {[start |-> toISOString(t), results |-> rs] :
     t \in {0, 2}, rs \in UNION {[1..k -> Result] : k \in 0..MaxRows}}

\* process(report) of the daily-auths report
process(r) ==
  LET date == newDate(r.start)
  IN  [i \in 1..Len(r.results) |->
         [date |-> date, agency |-> fieldOr(r.results[i], "agency", "(No Agency)")]
           @@ r.results[i]]

(***************************************************************************)
(* daily-dropoffs-report (the funnel)                                      *)
(***************************************************************************)

\* A JavaScript number that a division yields, as a fraction in lowest terms:
\* den = 0 is NaN (num = 0) or Infinity (num = 1).
Zero == [num |-> 0, den |-> 1]
NaN == [num |-> 0, den |-> 0]
Infinity == [num |-> 1, den |-> 0]

RECURSIVE gcd(_, _)
gcd(a, b) == IF b = 0 THEN a ELSE gcd(b, a % b)

\* a / b on two counts
divide(a, b) ==
  IF b = 0 THEN (IF a = 0 THEN NaN ELSE Infinity)
  ELSE [num |-> a \div gcd(a, b), den |-> b \div gcd(a, b)]

\* x || 0 on a number: 0 and NaN are falsy
orZero(x) == IF x.num = 0 THEN Zero ELSE x

\* d3-format format(","): an integer with its thousands grouped
RECURSIVE formatWithCommas(_)
formatWithCommas(n) ==
  IF n < 1000 THEN ToString(n)
  ELSE formatWithCommas(n \div 1000) \o ","
         \o (IF n % 1000 < 10 THEN "00" ELSE IF n % 1000 < 100 THEN "0" ELSE "")
         \o ToString(n % 1000)

\* d3-format format(".0%"): (x * 100).toFixed(0) and a percent sign
formatAsPercent(x) ==
  IF x.den = 0 THEN (IF x.num = 0 THEN "NaN%" ELSE "Infinity%")
  ELSE ToString((200 * x.num + x.den) \div (2 * x.den)) \o "%"

OVERALL == "overall"
BLANKET == "blanket"
FunnelMode == {OVERALL, BLANKET}

STEPS == <<
  [key |-> "welcome", title |-> "Welcome"],
  [key |-> "agreement", title |-> "Agreement"],
  [key |-> "capture_document", title |-> "Capture Document"],
  [key |-> "cap_doc_submit", title |-> "Submit Document"],
  [key |-> "ssn", title |-> "SSN"],
  [key |-> "verify_info", title |-> "Verify Info"],
  [key |-> "verify_submit", title |-> "Verify Submit"],
  [key |-> "phone", title |-> "Phone"],
  [key |-> "encrypt", title |-> "Encrypt"],
  [key |-> "personal_key", title |-> "Personal Key"],
  [key |-> "verified", title |-> "Verified"] >>

\* funnelSteps that starts at the welcome step in either mode
funnelStepsFromWelcome(funnelMode) == STEPS

funnelSteps(funnelMode) ==
  IF funnelMode = OVERALL THEN STEPS ELSE SubSeq(STEPS, 4, Len(STEPS))

\* row[key] || 0: a step the row does not carry counts as 0
stepCount(row, key) == IF key \in DOMAIN row THEN row[key] ELSE 0

toStepCounts(row, funnelMode) ==
  LET steps == funnelSteps(funnelMode)
      firstCount == stepCount(row, steps[1].key)
  IN  [idx \in 1..Len(steps) |->
         LET count == stepCount(row, steps[idx].key)
             prevCount == IF idx > 1 THEN stepCount(row, steps[idx - 1].key)
                          ELSE firstCount
         IN  [step |-> steps[idx].key,
              count |-> count,
              percentOfFirst |-> orZero(divide(count, firstCount)),
              percentOfPrevious |-> orZero(divide(count, prevCount))]]

\* DailyDropoffsRow: the steps a row carries are a function of step keys.
funnelFriendlyName(issuer) == IF issuer = "issuer1" THEN "app2" ELSE "app1"

StepProfiles ==
  {<<>>} \cup
  {[welcome |-> w, cap_doc_submit |-> c, verified |-> v] :
     w \in {0, 800}, c \in {0, 600}, v \in {0, 300}}

DailyDropoffsRow ==
  {[issuer |-> i, friendly_name |-> funnelFriendlyName(i), agency |-> a] @@ p :
     i \in Issuers, a \in Agencies, p \in StepProfiles}

\* stepCells with a percent cell for the first step as well
stepCellsAllPairs(row, funnelMode, withCsv) ==
  LET counts == toStepCounts(row, funnelMode)
  IN  flat([idx \in 1..Len(counts) |->
              <<[tag |-> "td", csv |-> counts[idx].count,
                 text |-> formatWithCommas(counts[idx].count)],
                [tag |-> "td", csv |-> counts[idx].percentOfFirst,
                 text |-> formatAsPercent(counts[idx].percentOfFirst)]>>])

\* The cells of one body row after the agency and the app cell.
stepCells(row, funnelMode, withCsv) ==
  LET counts == toStepCounts(row, funnelMode)
      countCell(c) ==
        IF withCsv
        THEN [tag |-> "td", csv |-> c.count, text |-> formatWithCommas(c.count)]
        ELSE [tag |-> "td", text |-> formatWithCommas(c.count)]
      percentCell(c) ==
        IF withCsv
        THEN [tag |-> "td", csv |-> c.percentOfFirst,
              text |-> formatAsPercent(c.percentOfFirst)]
        ELSE [tag |-> "td", text |-> formatAsPercent(c.percentOfFirst)]
  IN  flat([idx \in 1..Len(counts) |->
              IF idx > 1 THEN <<countCell(counts[idx]), percentCell(counts[idx])>>
              ELSE <<countCell(counts[idx])>>])

\* stepHeader with every th spanning one column
stepHeaderSingleSpan(funnelMode) ==
  [idx \in 1..Len(funnelSteps(funnelMode)) |->
     [tag |-> "th", colSpan |-> 1, text |-> funnelSteps(funnelMode)[idx].title]]

stepHeader(funnelMode) ==
  [idx \in 1..Len(funnelSteps(funnelMode)) |->
     [tag |-> "th", colSpan |-> IF idx = 1 THEN 1 ELSE 2,
      text |-> funnelSteps(funnelMode)[idx].title]]

\* unsortedRows.sort(ascending(agencyA, agencyB) || ascending(friendlyNameA, friendlyNameB))
sortRows(unsortedRows) ==
  sort(unsortedRows,
       [i \in 1..Len(unsortedRows) |->
          Rank(unsortedRows[i].agency) * (Len(Lex) + 1)
            + Rank(unsortedRows[i].friendly_name)])

\* funnelTotals with totals[idx] = count in place of +=
funnelTotalsLastRow(rows, funnelMode) ==
  [idx \in 1..Len(funnelSteps(funnelMode)) |->
     IF rows = <<>> THEN 0
     ELSE toStepCounts(rows[Len(rows)], funnelMode)[idx].count]

\* totals[idx] += count, over the rows in turn
funnelTotals(rows, funnelMode) ==
  [idx \in 1..Len(funnelSteps(funnelMode)) |->
     sum([r \in 1..Len(rows) |-> toStepCounts(rows[r], funnelMode)[idx].count])]

\* tabulate of the daily-dropoffs report component (with a footer)
funnelTabulate(unsortedRows, funnelMode) ==
  LET rows == sortRows(unsortedRows)
      header == <<"Agency",
                  [tag |-> "span", csv |-> <<"Issuer", "Friendly Name">>, text |-> "App"]>>
                  \o stepHeader(funnelMode)
      totals == funnelTotals(rows, funnelMode)
      body == [r \in 1..Len(rows) |->
                 <<rows[r].agency,
                   [tag |-> "span", title |-> rows[r].issuer,
                    csv |-> <<rows[r].issuer, rows[r].friendly_name>>,
                    text |-> rows[r].friendly_name]>>
                   \o stepCells(rows[r], funnelMode, TRUE)]
      footer == <<"Total", "">>
                  \o flat([idx \in 1..Len(totals) |->
                       IF idx > 1
                       THEN <<[tag |-> "td", text |-> formatWithCommas(totals[idx])],
                              [tag |-> "td", text |-> ""]>>
                       ELSE <<[tag |-> "td", text |-> formatWithCommas(totals[idx])]>>])
  IN  [header |-> header, body |-> body, footer |-> footer]

\* tabulate of daily-dropoffs-report.tsx (filtered by agency, no footer)
dropoffsTabulate(results, funnelMode, filterAgency) ==
  LET filteredRows ==
        SelectSeq(results, LAMBDA d : filterAgency = "" \/ d.agency = filterAgency)
      header == <<"Agency", "App">> \o stepHeader(funnelMode)
      body == [r \in 1..Len(filteredRows) |->
                 <<filteredRows[r].agency,
                   [tag |-> "span", title |-> filteredRows[r].issuer,
                    text |-> filteredRows[r].friendly_name]>>
                   \o stepCells(filteredRows[r], funnelMode, FALSE)]
  IN  [header |-> header, body |-> body, footer |-> <<>>]

\* The rows that csvParse(str, autoType) yields of a fetched daily-dropoffs
\* report: a row has the columns that the file has.
ParsedRow ==
  {i @@ f @@ a @@ p :
     i \in OptionalField("issuer", {"issuer1"}),
     f \in OptionalField("friendly_name", {"app1"}),
     a \in OptionalField("agency", {"agency1"}),
     p \in {<<>>, [welcome |-> 800, verified |-> 300]}}

\* process(str) of the daily-dropoffs report, on the rows parsed of str
dropoffsProcess(parsedRows) ==
  [i \in 1..Len(parsedRows) |->
     [issuer |-> fieldOr(parsedRows[i], "issuer", "(No Issuer)"),
      agency |-> fieldOr(parsedRows[i], "agency", "(No Agency)"),
      friendly_name |-> fieldOr(parsedRows[i], "friendly_name", "(No App)")]
       @@ parsedRows[i]]

\* Rows whose steps include neighbours in the funnel, for toStepCounts.
FunnelRow ==
  {[issuer |-> i, friendly_name |-> funnelFriendlyName(i), agency |-> "agency1"] @@ p :
     i \in Issuers,
     p \in {<<>>} \cup [welcome : {0, 800}, agreement : {0, 400},
                        cap_doc_submit : {0, 600}, ssn : {0, 300},
                        verified : {0, 300}]}

\* The keys of STEPS.
stepKeys == {STEPS[i].key : i \in 1..Len(STEPS)}

\* aggregate's steps Map of one issuer's bin, taking the count of the first row
\* alone
stepSumsOfFirstRow(bin) == [key \in stepKeys |-> stepCount(bin[1], key)]

\* aggregate's steps Map of one issuer's bin, after its forEach: for every
\* key of STEPS the sum of row[key] || 0 over the bin
stepSums(bin) ==
  [key \in stepKeys |-> sum([i \in 1..Len(bin) |-> stepCount(bin[i], key)])]

\* aggregate without its sort: the issuers in the order of the Map of group
aggregateUnsorted(rows) ==
  LET groups == group(rows, [i \in 1..Len(rows) |-> rows[i].issuer])
  IN  [g \in 1..Len(groups) |->
         [issuer |-> groups[g].bin[1].issuer,
          friendly_name |-> groups[g].bin[1].friendly_name,
          agency |-> groups[g].bin[1].agency] @@ stepSums(groups[g].bin)]

\* aggregate(rows); of bin[0] the model's rows carry issuer, friendly_name
\* and agency (not iaa, start and finish)
aggregate(rows) ==
  LET groups == group(rows, [i \in 1..Len(rows) |-> rows[i].issuer])
      sorted == sort(groups,
                     [g \in 1..Len(groups) |->
                        Rank(groups[g].key) * (Len(Lex) + 1)
                          + Rank(groups[g].bin[1].friendly_name)])
  IN  [g \in 1..Len(sorted) |->
         [issuer |-> sorted[g].bin[1].issuer,
          friendly_name |-> sorted[g].bin[1].friendly_name,
          agency |-> sorted[g].bin[1].agency] @@ stepSums(sorted[g].bin)]

(***************************************************************************)
(* daily-registrations-report and account-deletions-report                 *)
(***************************************************************************)
RegistrationsResult ==
  {[date |-> t, totalUsers |-> u, fullyRegisteredUsers |-> f,
    totalUsersCumulative |-> u + 2, fullyRegisteredUsersCumulative |-> f + 1] :
      t \in Times, u \in Counts, f \in Counts}

registrationsTabulate(results) ==
  LET column(Field(_)) == [i \in 1..Len(results) |-> Field(results[i])]
  IN  [header |-> <<"">> \o column(LAMBDA r : yearMonthDayFormat(r.date)),
       body |-> << <<"New Users">> \o column(LAMBDA r : r.totalUsers),
                   <<"New Fully Registered Users">>
                     \o column(LAMBDA r : r.fullyRegisteredUsers),
                   <<"Cumulative Users">> \o column(LAMBDA r : r.totalUsersCumulative),
                   <<"Cumulative Fully Registered Users">>
                     \o column(LAMBDA r : r.fullyRegisteredUsersCumulative) >>,
       footer |-> <<>>]

ProcessedFormattedData ==
  {[date |-> t, value |-> v] :
     t \in Times, v \in {Zero, NaN, Infinity, divide(1, 2)}}

\* results.sort(ascending(aDate, bDate)), in place
sortByDate(results) == sort(results, [i \in 1..Len(results) |-> results[i].date])

deletionsTabulate(results) ==
  LET sorted == sortByDate(results)
  IN  [header |-> <<"Date", "Percent">>,
       body |-> [i \in 1..Len(sorted) |->
                   <<yearMonthDayFormat(sorted[i].date), sorted[i].value>>],
       footer |-> <<>>]

\* The members of DataType that the two switches name.
DataType ==
  {"TOTAL_USERS", "TOTAL_USERS_CUMULATIVE",
   "FULLY_REGISTERED_USERS", "FULLY_REGISTERED_USERS_CUMULATIVE"}

\* The rows that the chart draws; a type that is no member of DataType is data
\* that breaks the contract.
ProcessedRenderableData ==
  {[date |-> t, type |-> type, value |-> 1] :
     t \in {0, TicksPerDay}, type \in DataType \cup {"DELETED_USERS"}}

\* A call that returns value, and a call that throws new Error(message).
returns(value) == [threw |-> FALSE, value |-> value]
throws(message) == [threw |-> TRUE, message |-> message]

\* tickFormat with a label for a type that is unknown, instead of the throw
tickFormatLabelsUnknown(type) ==
  IF type \in {"TOTAL_USERS", "TOTAL_USERS_CUMULATIVE"}
  THEN returns("Total Users")
  ELSE returns("Full Registered Users")

\* color.tickFormat of plot: the legend's label of a type
tickFormat(type) ==
  IF type \in {"TOTAL_USERS", "TOTAL_USERS_CUMULATIVE"}
  THEN returns("Total Users")
  ELSE IF type \in {"FULLY_REGISTERED_USERS", "FULLY_REGISTERED_USERS_CUMULATIVE"}
  THEN returns("Full Registered Users")
  ELSE throws("Unknown type " \o type)

\* The callback of the filter in DailyRegistrationsReport, on one row
keeps(type, cumulative) ==
  IF type \in {"TOTAL_USERS", "FULLY_REGISTERED_USERS"}
  THEN returns(~cumulative)
  ELSE IF type \in {"TOTAL_USERS_CUMULATIVE", "FULLY_REGISTERED_USERS_CUMULATIVE"}
  THEN returns(cumulative)
  ELSE throws("Unknown data type " \o type)

\* filteredData: rows.filter(...) throws what its callback throws on the first
\* row for which it throws
filterByType(rows, cumulative) ==
  LET thrown == {i \in 1..Len(rows) : keeps(rows[i].type, cumulative).threw}
  IN  IF thrown # {}
      THEN keeps(rows[CHOOSE i \in thrown : \A j \in thrown : i <= j].type, cumulative)
      ELSE returns(SelectSeq(rows, LAMBDA r : keeps(r.type, cumulative).value))

\* A *Result* row of the registration data as formatData reads it.
RegistrationData ==
  {[date |-> t, deletedUsers |-> d, fullyRegisteredUsers |-> f] :
     t \in Times, d \in {0, 1}, f \in {0, 2}}

\* Date.prototype.getDay, 0 for Sunday; tick 0 is 2021-01-01, a Friday.  The
\* local time zone is taken to be UTC.
getDay(date) == (5 + (date \div TicksPerDay)) % 7

\* setDate(getDate() - getDay()): back to Sunday, at the same time of day
getStartOfWeek(date) == date - getDay(date) * TicksPerDay

formatData(rows) ==
  LET weeks == group(rows, [i \in 1..Len(rows) |-> getStartOfWeek(rows[i].date)])
      total(entries, Field(_)) == sum([i \in 1..Len(entries) |-> Field(entries[i])])
  IN  [w \in 1..Len(weeks) |->
         [date |-> weeks[w].key,
          value |-> divide(total(weeks[w].bin, LAMBDA e : e.deletedUsers),
                           total(weeks[w].bin, LAMBDA e : e.fullyRegisteredUsers))]]

(***************************************************************************)
(* loadData: one fetch for each day, and the promise of all of them        *)
(***************************************************************************)
DEFAULT_IAL == 1
DEFAULT_ENV == "prod"

\* d3-time utcDay.ceil: the first UTC midnight at or after date
utcDayCeil(date) == ((date + TicksPerDay - 1) \div TicksPerDay) * TicksPerDay

\* d3-time utcDays(start, stop, 1) with stop included when it is a midnight
utcDaysThroughStop(start, stop) ==
  LET first == utcDayCeil(start)
      n == IF first <= stop THEN (stop - first) \div TicksPerDay + 1 ELSE 0
  IN  [i \in 1..n |-> first + (i - 1) * TicksPerDay]

\* d3-time utcDays(start, stop, 1): the UTC midnights from utcDay.ceil(start)
\* on that are before stop
utcDays(start, stop) ==
  LET first == utcDayCeil(start)
      n == IF first < stop THEN (stop - first - 1) \div TicksPerDay + 1 ELSE 0
  IN  [i \in 1..n |-> first + (i - 1) * TicksPerDay]

\* What the server can answer for the report of a day: for daily-auths a
\* DailyAuthsReportData whose start is in that day, for daily-dropoffs the
\* rows of a csv file.
Responses(reportName, date) ==
  IF reportName = "daily-auths-report"
  THEN {[start |-> toISOString(t), results |-> rs] :
          t \in {date, date + 1},
          rs \in {<<>>,
                  <<[count |-> 1, ial |-> 1, issuer |-> "issuer1",
                     friendly_name |-> "app1"]>>,
                  <<[count |-> 1, ial |-> 1, issuer |-> "issuer1",
                     friendly_name |-> "app1", agency |-> "agency1"],
                    [count |-> 2, ial |-> 2, issuer |-> "issuer2",
                     friendly_name |-> "app2", agency |-> "agency2"]>>}}
  ELSE {<<>>,
        <<[issuer |-> "issuer1", friendly_name |-> "app1", welcome |-> 800]>>,
        <<[issuer |-> "issuer1", friendly_name |-> "app1", agency |-> "agency1",
           welcome |-> 800, verified |-> 300],
          [issuer |-> "issuer2", agency |-> "agency2", welcome |-> 800]>>}

\* The fetches that have settled.
settled(fs) == {i \in 1..Len(fs) : fs[i].state # "pending"}

\* The fulfilled values in the order in which they arrived.
valuesInArrivalOrder(fs) ==
  LET idx == sort([i \in 1..Len(fs) |-> i], [i \in 1..Len(fs) |-> fs[i].order])
  IN  [m \in 1..Len(fs) |-> fs[idx[m]].value]

\* The array that Promise.all fulfills with: the values in the order of the
\* promises it was given.
values(fs) == [i \in 1..Len(fs) |-> fs[i].value]

\* A promise that fulfills once every fetch has settled, with the values of
\* those that were fulfilled (Promise.allSettled, the rejections dropped).
promiseAllSettled(fs) ==
  IF \A i \in 1..Len(fs) : fs[i].state # "pending"
  THEN [state |-> "fulfilled",
        value |-> LET ok == SelectSeq(fs, LAMBDA f : f.state = "fulfilled")
                  IN  [i \in 1..Len(ok) |-> ok[i].value]]
  ELSE [state |-> "pending", value |-> <<>>]

\* Promise.all(fs): rejected once one fetch is rejected, fulfilled once all of
\* them are fulfilled
promiseAll(fs) ==
  IF \E i \in 1..Len(fs) : fs[i].state = "rejected"
  THEN [state |-> "rejected", value |-> <<>>]
  ELSE IF \A i \in 1..Len(fs) : fs[i].state = "fulfilled"
  THEN [state |-> "fulfilled", value |-> values(fs)]
  ELSE [state |-> "pending", value |-> <<>>]

\* .then((reports) => ...) of the two loadData functions
thenRows(p, reportName) ==
  IF p.state # "fulfilled" THEN p
  ELSE [state |-> "fulfilled",
        value |->
          IF reportName = "daily-auths-report"
          THEN flat([i \in 1..Len(p.value) |-> process(p.value[i])])
          ELSE aggregate(flat([i \in 1..Len(p.value) |->
                                 dropoffsProcess(p.value[i])]))]

\* The promise that loadData returned, given its fetches.
loadData(fs, reportName) == thenRows(promiseAll(fs), reportName)

(***************************************************************************)
(* useQuery: what a report loads, remembered under its query key           *)
(***************************************************************************)

\* The key that each report gives to useQuery.
queryKey(reportName, filters) ==
  IF reportName = "daily-auths-report"
  THEN ToString(filters.start) \o "-" \o ToString(filters.finish)
  ELSE IF reportName = "daily-dropoffs-report"
  THEN "dropoffs/" \o ToString(filters.start) \o "-" \o ToString(filters.finish)
  ELSE "daily-registrations-" \o ToString(filters.finish)

\* The call of loadData that each report gives to useQuery: what the data it
\* resolves with was fetched for.
fetcher(reportName, filters) ==
  IF reportName = "daily-registrations-report"
  THEN [reportName |-> reportName, finish |-> filters.finish, env |-> filters.env]
  ELSE [reportName |-> reportName, start |-> filters.start,
        finish |-> filters.finish, env |-> filters.env]

\* The date ranges that the filters of a session go through: a start and a
\* finish midnight.
Ranges ==
  {<<0, TicksPerDay>>, <<0, 2 * TicksPerDay>>, <<TicksPerDay, 2 * TicksPerDay>>}

\* preact-fetching useQuery(key, fetcher) on the queries remembered so far:
\* the fetcher is called when there is no query of that key yet
useQuery(remembered, key, loaded) ==
  IF key \in DOMAIN remembered THEN remembered ELSE (key :> loaded) @@ remembered

(***************************************************************************)
(* ReportRoute: the filter context of the query parameters                 *)
(***************************************************************************)

\* A string that parseInt reads is the sequence of its characters.
Digits == <<"0", "1", "2", "3">>
Chars == {"-", "a"} \cup {Digits[i] : i \in 1..Len(Digits)}
Strings == UNION {[1..n -> Chars] : n \in 0..2}

digitValue(c) == (CHOOSE i \in 1..Len(Digits) : Digits[i] = c) - 1

\* The value of the longest prefix of digits of str after the digits read so
\* far; read is -1 until a digit has been read.
RECURSIVE parseDigits(_, _)
parseDigits(str, read) ==
  IF str # <<>> /\ Head(str) \in Chars \ {"-", "a"}
  THEN parseDigits(Tail(str),
                   (IF read < 0 THEN 0 ELSE 10 * read) + digitValue(Head(str)))
  ELSE read

\* parseInt(str, 10) as a JavaScript number: an optional sign and the longest
\* prefix of digits, NaN when there is no digit
parseInt(str) ==
  LET negative == str # <<>> /\ Head(str) = "-"
      magnitude == parseDigits(IF negative THEN Tail(str) ELSE str, -1)
  IN  IF magnitude < 0 THEN NaN
      ELSE [num |-> IF negative THEN 0 - magnitude ELSE magnitude, den |-> 1]

\* utcParse("%Y-%m-%d") yields a Date of the strings that yearMonthDayFormat
\* writes, and null of any other
parses(str) ==
  \E date \in Dates : date % TicksPerDay = 0 /\ yearMonthDayFormat(date) = str

yearMonthDayParse(str) ==
  CHOOSE date \in Dates : date % TicksPerDay = 0 /\ yearMonthDayFormat(date) = str

\* d3-time utcWeek.floor: the midnight of the Sunday at or before date
utcWeekFloor(date) ==
  ((date \div TicksPerDay) - getDay(date)) * TicksPerDay

\* (param && yearMonthDayParse(param)) || otherwise
dateOr(p, param, otherwise) ==
  IF param \in DOMAIN p /\ p[param] # "" /\ parses(p[param])
  THEN yearMonthDayParse(p[param])
  ELSE otherwise

\* The props that the router gives to ReportRoute: the path, and the query
\* parameters that the URL has.
ReportRouteProps ==
  {[path |-> "/"] @@ s @@ f @@ i @@ a @@ e :
     s \in OptionalField("start", {"2021-01-02", "yesterday"}),
     f \in OptionalField("finish", {"2021-01-03"}),
     i \in {<<>>} \cup {[ial |-> str] : str \in Strings},
     a \in {<<>>, [agency |-> "agency1"]},
     e \in OptionalField("env", {"int"})}

\* The values that ReportRoute gives to ReportFilterContextProvider, at the
\* time now
reportFilterContextValues(p, now) ==
  LET endOfPreviousWeek == utcWeekFloor(now)
      startOfPreviousWeek == utcWeekFloor(endOfPreviousWeek - 1)
      ial == parseInt(IF "ial" \in DOMAIN p THEN p.ial ELSE <<>>)
  IN  [start |-> dateOr(p, "start", startOfPreviousWeek),
       finish |-> dateOr(p, "finish", endOfPreviousWeek),
       ial |-> IF orZero(ial) = Zero THEN DEFAULT_IAL ELSE ial.num,
       env |-> fieldOr(p, "env", DEFAULT_ENV)]
        @@ (IF "agency" \in DOMAIN p THEN [agency |-> p.agency] ELSE <<>>)

(***************************************************************************)
(* The state machine.                                                      *)
(***************************************************************************)
NoArgs == [filterAgency |-> "", filterIal |-> 0, funnelMode |-> "", row |-> 0]
NoTable == [header |-> <<>>, body |-> <<>>, footer |-> <<>>]

SeqsUpTo(S, n) == UNION {[1..k -> S] : k \in 0..n}

InitDailyAuths ==
  /\ report = "daily-auths-report"
  /\ data \in SeqsUpTo(ProcessedResult, MaxRows)

InitDailyDropoffs ==
  /\ report = "daily-dropoffs-report"
  /\ data \in SeqsUpTo(DailyDropoffsRow, MaxRows)

InitDailyRegistrations ==
  /\ report = "daily-registrations-report"
  /\ data \in SeqsUpTo(RegistrationsResult, MaxRows)

InitAccountDeletions ==
  /\ report = "account-deletions-report"
  /\ data \in SeqsUpTo(ProcessedFormattedData, MaxRows)

NotCalled ==
  /\ called = "none"
  /\ args = NoArgs
  /\ table = NoTable
  /\ stepCounts = <<>>
  /\ result = <<>>

\* No route has rendered and nothing is being loaded.
NoPromise == [state |-> "none", value |-> <<>>]

NotLoading ==
  /\ props = <<>>
  /\ context = <<>>
  /\ fetches = <<>>
  /\ promise = NoPromise
  /\ queries = <<>>

Init ==
  /\ \/ InitDailyAuths
     \/ InitDailyDropoffs
     \/ InitDailyRegistrations
     \/ InitAccountDeletions
  /\ NotCalled
  /\ NotLoading

\* tabulate(results, filterAgency, filterIal) of the daily-auths report
Tabulate ==
  /\ report = "daily-auths-report"
  /\ called = "none"
  /\ \E filterAgency \in Agencies \cup {""}, filterIal \in Ials \cup {0} :
       /\ args' = [NoArgs EXCEPT !.filterAgency = filterAgency, !.filterIal = filterIal]
       /\ table' = tabulate(data, filterAgency, filterIal)
  /\ called' = "tabulate"
  /\ UNCHANGED <<report, data, stepCounts, result, loadVars>>

\* tabulateSumByAgency(results, filterIal)
TabulateSumByAgency ==
  /\ report = "daily-auths-report"
  /\ called = "none"
  /\ \E filterIal \in Ials \cup {0} :
       /\ args' = [NoArgs EXCEPT !.filterIal = filterIal]
       /\ table' = tabulateSumByAgency(data, filterIal)
  /\ called' = "tabulateSumByAgency"
  /\ UNCHANGED <<report, data, stepCounts, result, loadVars>>

\* tabulate({rows, funnelMode, issuerColor}) of the dropoffs component; the
\* sort is in place, so the caller's array is sorted afterwards
FunnelTabulate ==
  /\ report = "daily-dropoffs-report"
  /\ called = "none"
  /\ \E funnelMode \in FunnelMode :
       /\ args' = [NoArgs EXCEPT !.funnelMode = funnelMode]
       /\ table' = funnelTabulate(data, funnelMode)
  /\ data' = sortRows(data)
  /\ called' = "funnelTabulate"
  /\ UNCHANGED <<report, stepCounts, result, loadVars>>

\* tabulate({rows, funnelMode, filterAgency, issuerColor}) of daily-dropoffs-report.tsx
DropoffsTabulate ==
  /\ report = "daily-dropoffs-report"
  /\ called = "none"
  /\ \E funnelMode \in FunnelMode, filterAgency \in Agencies \cup {""} :
       /\ args' = [NoArgs EXCEPT !.funnelMode = funnelMode,
                                 !.filterAgency = filterAgency]
       /\ table' = dropoffsTabulate(data, funnelMode, filterAgency)
  /\ called' = "dropoffsTabulate"
  /\ UNCHANGED <<report, data, stepCounts, result, loadVars>>

\* toStepCounts(row, funnelMode) on one of the loaded rows
ToStepCounts ==
  /\ report = "daily-dropoffs-report"
  /\ called = "none"
  /\ \E r \in 1..Len(data), funnelMode \in FunnelMode :
       /\ args' = [NoArgs EXCEPT !.funnelMode = funnelMode, !.row = r]
       /\ stepCounts' = toStepCounts(data[r], funnelMode)
  /\ called' = "toStepCounts"
  /\ UNCHANGED <<report, data, table, result, loadVars>>

\* aggregate(rows) on the loaded rows
Aggregate ==
  /\ report = "daily-dropoffs-report"
  /\ called = "none"
  /\ result' = aggregate(data)
  /\ called' = "aggregate"
  /\ UNCHANGED <<report, data, args, table, stepCounts, loadVars>>

\* tabulate(results) of the daily-registrations report
RegistrationsTabulate ==
  /\ report = "daily-registrations-report"
  /\ called = "none"
  /\ args' = NoArgs
  /\ table' = registrationsTabulate(data)
  /\ called' = "registrationsTabulate"
  /\ UNCHANGED <<report, data, stepCounts, result, loadVars>>

\* tabulate(results) of the account-deletions report; the sort is in place
DeletionsTabulate ==
  /\ report = "account-deletions-report"
  /\ called = "none"
  /\ args' = NoArgs
  /\ table' = deletionsTabulate(data)
  /\ data' = sortByDate(data)
  /\ called' = "deletionsTabulate"
  /\ UNCHANGED <<report, stepCounts, result, loadVars>>

\* process(report) on a fetched daily-auths report
Process ==
  /\ report = "daily-auths-report.json"
  /\ called = "none"
  /\ result' = process(data)
  /\ called' = "process"
  /\ UNCHANGED <<report, data, args, table, stepCounts, loadVars>>

\* process(str) on a fetched daily-dropoffs report
DropoffsProcess ==
  /\ report = "daily-dropoffs-report.csv"
  /\ called = "none"
  /\ result' = dropoffsProcess(data)
  /\ called' = "dropoffsProcess"
  /\ UNCHANGED <<report, data, args, table, stepCounts, loadVars>>

NextProcess == Process \/ DropoffsProcess

\* formatData(data) of the account-deletions report
FormatData ==
  /\ report = "account-deletions-data"
  /\ called = "none"
  /\ result' = formatData(data)
  /\ called' = "formatData"
  /\ UNCHANGED <<report, data, args, table, stepCounts, loadVars>>

\* loadData(start, finish, env): a fetch for each day of utcDays, all issued
\* by the one map before anything else runs
LoadData ==
  /\ report \in {"daily-auths-report", "daily-dropoffs-report"}
  /\ promise.state = "none"
  /\ called = "none"
  /\ LET days == utcDays(context.start, context.finish)
     IN  /\ fetches' = [i \in 1..Len(days) |->
                          [reportName |-> report, date |-> days[i],
                           env |-> context.env, state |-> "pending",
                           value |-> <<>>, order |-> 0]]
         /\ promise' = loadData(fetches', report)
  /\ data' = (IF promise'.state = "fulfilled" THEN promise'.value ELSE data)
  /\ called' = "loadData"
  /\ UNCHANGED <<report, args, table, stepCounts, result, props, context, queries>>

\* A pending fetch settles as outcome; what then runs is the rest of the
\* promise chain, up to the data that useQuery hands to the report.
settle(i, outcome, value) ==
  /\ fetches' = [fetches EXCEPT ![i].state = outcome, ![i].value = value,
                                ![i].order = Cardinality(settled(fetches)) + 1]
  /\ promise' = loadData(fetches', report)
  /\ data' = (IF promise'.state = "fulfilled" THEN promise'.value ELSE data)
  /\ UNCHANGED <<report, called, args, table, stepCounts, result, props, context,
                 queries>>

\* The response of a fetch arrives and is parsed.
FetchFulfilled ==
  \E i \in 1..Len(fetches) :
    /\ fetches[i].state = "pending"
    /\ \E response \in Responses(fetches[i].reportName, fetches[i].date) :
         settle(i, "fulfilled", response)

\* A fetch fails, or its response does not parse.
FetchRejected ==
  \E i \in 1..Len(fetches) :
    /\ fetches[i].state = "pending"
    /\ settle(i, "rejected", <<>>)

NextLoad == LoadData \/ FetchFulfilled \/ FetchRejected

\* A report renders under the filter context: its useQuery, and the data
\* that the query resolves with (a row that names what it was fetched for)
UseQuery ==
  /\ report \in {"daily-auths-report", "daily-dropoffs-report",
                  "daily-registrations-report"}
  /\ called = "none"
  /\ fetches = <<>>
  /\ LET key == queryKey(report, context)
     IN  /\ queries' = useQuery(queries, key, fetcher(report, context))
         /\ data' = <<queries'[key]>>
  /\ called' = "useQuery"
  /\ UNCHANGED <<report, args, table, stepCounts, result, props, context, fetches,
                 promise>>

\* setParameters, or a link: the route changes the filters, or the report
SetParameters ==
  /\ called = "useQuery"
  /\ \E reportName \in {"daily-auths-report", "daily-dropoffs-report",
                         "daily-registrations-report"},
        range \in Ranges, env \in Envs :
       /\ report' = reportName
       /\ context' = [context EXCEPT !.start = range[1], !.finish = range[2],
                                     !.env = env]
  /\ data' = <<>>
  /\ called' = "none"
  /\ UNCHANGED <<args, table, stepCounts, result, props, fetches, promise, queries>>

NextQuery == UseQuery \/ SetParameters

\* ReportRoute renders with the props of the URL
ReportRoute ==
  /\ "path" \in DOMAIN props
  /\ called = "none"
  /\ \E now \in Dates : context' = reportFilterContextValues(props, now)
  /\ called' = "ReportRoute"
  /\ UNCHANGED <<report, data, args, table, stepCounts, result, props, fetches,
                 promise, queries>>

\* The legend asks tickFormat for the label of the type of one of the rows.
TickFormat ==
  /\ report = "daily-registrations-chart"
  /\ called = "none"
  /\ \E r \in 1..Len(data) :
       /\ args' = [NoArgs EXCEPT !.row = r]
       /\ result' = tickFormat(data[r].type)
  /\ called' = "tickFormat"
  /\ UNCHANGED <<report, data, table, stepCounts, loadVars>>

\* DailyRegistrationsReport selects the series of the chart.
FilterByType ==
  /\ report = "daily-registrations-chart"
  /\ called = "none"
  /\ args' = NoArgs
  /\ result' = filterByType(data, context.cumulative)
  /\ called' = "filter"
  /\ UNCHANGED <<report, data, table, stepCounts, loadVars>>

NextChart == TickFormat \/ FilterByType

NextAuths == Tabulate \/ TabulateSumByAgency

NextFunnel == FunnelTabulate \/ DropoffsTabulate \/ ToStepCounts \/ Aggregate

Next ==
  \/ Tabulate
  \/ TabulateSumByAgency
  \/ FunnelTabulate
  \/ DropoffsTabulate
  \/ ToStepCounts
  \/ Aggregate
  \/ RegistrationsTabulate
  \/ DeletionsTabulate

InitAuths == InitDailyAuths /\ NotCalled /\ NotLoading

InitFunnel == InitDailyDropoffs /\ NotCalled /\ NotLoading

\* The registration data that the account-deletions report formats.
InitFormatData ==
  /\ report = "account-deletions-data"
  /\ data \in SeqsUpTo(RegistrationData, MaxRows)
  /\ NotCalled
  /\ NotLoading

\* A fetched report, before its rows are normalized.
InitFetched ==
  /\ \/ /\ report = "daily-auths-report.json"
        /\ data \in DailyAuthsReportData
     \/ /\ report = "daily-dropoffs-report.csv"
        /\ data \in SeqsUpTo(ParsedRow, MaxRows)
  /\ NotCalled
  /\ NotLoading

\* A report is mounted under a filter context and has not loaded anything.
ReportFilterContextValues ==
  [start : Dates, finish : Dates, ial : {DEFAULT_IAL}, env : Envs]

InitLoad ==
  /\ report \in {"daily-auths-report", "daily-dropoffs-report"}
  /\ data = <<>>
  /\ NotCalled
  /\ props = <<>>
  /\ context \in ReportFilterContextValues
  /\ fetches = <<>>
  /\ promise = NoPromise
  /\ queries = <<>>

\* A report is about to render for the first time: nothing is remembered.
InitQuery ==
  /\ report \in {"daily-auths-report", "daily-dropoffs-report",
                  "daily-registrations-report"}
  /\ data = <<>>
  /\ NotCalled
  /\ props = <<>>
  /\ context \in {v \in ReportFilterContextValues : <<v.start, v.finish>> \in Ranges}
  /\ fetches = <<>>
  /\ promise = NoPromise
  /\ queries = <<>>

\* The router has matched the path of ReportRoute.
InitRoute ==
  /\ report = "daily-auths-report"
  /\ data = <<>>
  /\ NotCalled
  /\ props \in ReportRouteProps
  /\ context = <<>>
  /\ fetches = <<>>
  /\ promise = NoPromise
  /\ queries = <<>>

\* The renderable rows of the daily-registrations chart, and whether the
\* filter context asks for the cumulative series.
InitChart ==
  /\ report = "daily-registrations-chart"
  /\ data \in SeqsUpTo(ProcessedRenderableData, MaxRows)
  /\ NotCalled
  /\ props = <<>>
  /\ context \in {[cumulative |-> c] : c \in BOOLEAN}
  /\ fetches = <<>>
  /\ promise = NoPromise
  /\ queries = <<>>

\* One funnel row is loaded, for toStepCounts.
InitStepCounts ==
  /\ report = "daily-dropoffs-report"
  /\ data \in [1..1 -> FunnelRow]
  /\ NotCalled
  /\ NotLoading

\* Every report.
Spec == Init /\ [][Next]_vars

\* The daily-auths report alone.
SpecAuths == InitAuths /\ [][NextAuths]_vars

\* The daily-dropoffs report alone.
SpecFunnel == InitFunnel /\ [][NextFunnel]_vars

\* formatData of the account-deletions report alone.
SpecFormatData == InitFormatData /\ [][FormatData]_vars

\* The two row normalizers alone.
SpecProcess == InitFetched /\ [][NextProcess]_vars

\* loadData of the daily-auths and daily-dropoffs reports and the responses
\* to its fetches, in any order.
SpecLoad == InitLoad /\ [][NextLoad]_vars

\* The reports' queries over a session of filter changes.
SpecQuery == InitQuery /\ [][NextQuery]_vars

\* ReportRoute alone.
SpecRoute == InitRoute /\ [][ReportRoute]_vars

\* The two switches over DataType of the daily-registrations chart.
SpecChart == InitChart /\ [][NextChart]_vars

\* toStepCounts alone, on one row.
SpecStepCounts == InitStepCounts /\ [][ToStepCounts]_vars

(***************************************************************************)
(* What the claims are stated in: the call and its input, read from the    *)
(* state, without the functions they are about.                            *)
(***************************************************************************)

\* The input rows that pass the agency and ial filters of the call.
Matching ==
  {i \in 1..Len(data) :
     /\ (args.filterAgency = "" \/ data[i].agency = args.filterAgency)
     /\ (args.filterIal = 0 \/ data[i].ial = args.filterIal)}

\* The numbers of S in ascending order.
Ascending(S) ==
  [m \in 1..Cardinality(S) |->
     CHOOSE x \in S : Cardinality({y \in S : y < x}) = m - 1]

\* The date axis: the distinct dates of the matching rows, ascending.
Axis == Ascending({data[i].date : i \in Matching})

\* The sum of count over the input rows S.
RECURSIVE CountOver(_)
CountOver(S) ==
  IF S = {} THEN 0
  ELSE LET i == CHOOSE j \in S : TRUE IN data[i].count + CountOver(S \ {i})

\* The matching input rows of the group that a body row of tabulate shows.
GroupOf(r) ==
  {i \in Matching : /\ data[i].agency = r[1]
                    /\ data[i].issuer = r[2].title
                    /\ ToString(data[i].ial) = r[3]}

\* The matching input rows of the group that a body row of tabulateSumByAgency shows.
AgencyGroupOf(r) ==
  {i \in Matching : data[i].agency = r[1].text /\ ToString(data[i].ial) = r[2]}

Body == {table.body[r] : r \in 1..Len(table.body)}

\* A body row r whose first `lead` cells are labels: one numeric cell per date
\* of the axis, 0 where the row's group G has no input row of that date, and
\* then the total of these cells.
DayCellsAndTotal(r, lead, G) ==
  /\ Len(r) = lead + Len(Axis) + 1
  /\ \A k \in 1..Len(Axis) :
       /\ r[lead + k] \in Nat
       /\ (\A i \in G : data[i].date # Axis[k]) => r[lead + k] = 0
  /\ r[Len(r)] = sum(SubSeq(r, lead + 1, lead + Len(Axis)))

\* C1: in tabulate and in tabulateSumByAgency every body row holds one numeric
\* cell per date of the axis, in axis order, 0 where the row's group has no
\* input row of that date, followed by the total of the row's date cells.
C1_DayCellsAndTotal ==
  /\ called = "tabulate" => \A r \in Body : DayCellsAndTotal(r, 3, GroupOf(r))
  /\ called = "tabulateSumByAgency" =>
       \A r \in Body : DayCellsAndTotal(r, 2, AgencyGroupOf(r))

\* C2: in tabulate the cell of a body row under a date is the sum of count over
\* all matching input rows of the row's agency, issuer and ial with that date.
C2_CellIsSumOfCounts ==
  called = "tabulate" =>
    \A r \in Body :
      /\ Len(r) = 3 + Len(Axis) + 1
      /\ \A k \in 1..Len(Axis) :
           r[3 + k] = CountOver({i \in GroupOf(r) : data[i].date = Axis[k]})

\* C3: the date columns of tabulate's header are the distinct dates of the
\* matching input rows, each once, ascending; a date of filtered-out rows only
\* has no column.
C3_HeaderDates ==
  called = "tabulate" =>
    /\ Len(table.header) = 3 + Len(Axis) + 1
    /\ \A k \in 1..Len(Axis) : table.header[3 + k] = yearMonthDayFormat(Axis[k])

\* C3 witness: a filter is set, one row passes it, and the row that fails it
\* carries a date no matching row has; the header has the one date column.
C3_Witness ==
  /\ called = "tabulate"
  /\ Matching # {}
  /\ Len(table.header) = 3 + 1 + 1
  /\ \E i \in (1..Len(data)) \ Matching :
       \A j \in Matching : data[j].date # data[i].date

\* The (agency, issuer, ial) combinations of the matching input rows.
Combinations ==
  {<<data[i].agency, data[i].issuer, ToString(data[i].ial)>> : i \in Matching}

\* C4: tabulate has exactly one body row per (agency, issuer, ial) combination
\* of the matching input rows and none for any other combination.
C4_OneRowPerCombination ==
  called = "tabulate" =>
    /\ {<<r[1], r[2].title, r[3]>> : r \in Body} = Combinations
    /\ Len(table.body) = Cardinality(Combinations)

\* C4 witness: both filters are set, one input row matches and one does not.
C4_Witness ==
  /\ called = "tabulate"
  /\ args.filterAgency # ""
  /\ args.filterIal # 0
  /\ Len(data) = 2
  /\ Cardinality(Matching) = 1
  /\ Len(table.body) = 1

\* C5: the body rows of tabulate ascend by agency and, within an agency, by issuer.
C5_BodyOrder ==
  called = "tabulate" =>
    \A i, j \in 1..Len(table.body) :
      i < j =>
        LET a == table.body[i]
            b == table.body[j]
        IN  \/ Rank(a[1]) < Rank(b[1])
            \/ (a[1] = b[1] /\ Rank(a[2].title) <= Rank(b[2].title))

\* C5 witness: two input rows of one agency arrive with the issuers in
\* descending order and both are shown.
C5_Witness ==
  /\ called = "tabulate"
  /\ Len(data) = 2
  /\ data[1].agency = data[2].agency
  /\ Rank(data[1].issuer) > Rank(data[2].issuer)
  /\ Len(table.body) = 2
ColSpan(i) ==
  IF called \in {"funnelTabulate", "dropoffsTabulate"} /\ i > 2
  THEN table.header[i].colSpan
  ELSE 1

HeaderSpan == sum([i \in 1..Len(table.header) |-> ColSpan(i)])

\* C7 as claimed: in every table of every tabulate function each body row has
\* as many entries as the header.
C7_RowLengthIsHeaderLength ==
  \A r \in Body : Len(r) = Len(table.header)

\* C7 as amended: in every table of every tabulate function each body row has
\* as many entries as the header spans columns (the sum of the header entries'
\* colSpan, 1 where none is set).
C7_RowLengthIsHeaderSpan ==
  \A r \in Body : Len(r) = HeaderSpan

\* C7 witness: a funnel table with a body row, whose header has fewer entries
\* than the row.
C7_Witness ==
  /\ called = "funnelTabulate"
  /\ Len(table.body) = 2
  /\ Len(table.header) < Len(table.body[1])

\* The input row that body row r of a funnel table shows: funnelTabulate has
\* sorted the caller's array, dropoffsTabulate shows the matching rows in order.
FunnelSource(r) ==
  IF called = "funnelTabulate" THEN data[r] ELSE data[Ascending(Matching)[r]]

FunnelRowLength == 2 + 1 + 2 * (Len(funnelSteps(args.funnelMode)) - 1)

\* C8: in a funnel table, in either mode, a body row is the agency, the app
\* cell, the count of the mode's first step and, for each later step, its count
\* and then its percent of the first step; a footer has as many entries as
\* each body row.
C8_FunnelRowLayout ==
  called \in {"funnelTabulate", "dropoffsTabulate"} =>
    LET steps == funnelSteps(args.funnelMode)
    IN  /\ \A r \in 1..Len(table.body) :
             LET row == table.body[r]
                 src == FunnelSource(r)
                 counts == toStepCounts(src, args.funnelMode)
             IN  /\ Len(row) = FunnelRowLength
                 /\ row[1] = src.agency
                 /\ row[2].tag = "span" /\ row[2].title = src.issuer
                 /\ row[3].text = formatWithCommas(stepCount(src, steps[1].key))
                 /\ \A idx \in 2..Len(steps) :
                      /\ row[2 * idx].text =
                           formatWithCommas(stepCount(src, steps[idx].key))
                      /\ row[2 * idx + 1].text =
                           formatAsPercent(counts[idx].percentOfFirst)
        /\ table.footer # <<>> =>
             /\ Len(table.footer) = FunnelRowLength
             /\ \A row \in Body : Len(table.footer) = Len(row)

\* C8 witness: a funnel table in BLANKET mode with a footer and two body rows,
\* one of them with a later step that has a count.
C8_Witness ==
  /\ called = "funnelTabulate"
  /\ args.funnelMode = BLANKET
  /\ Len(table.body) = 2
  /\ table.footer # <<>>
  /\ table.body[1][3].text = "600"
  /\ table.body[1][Len(table.body[1])].text = "50%"

\* The column of the count of step idx in a funnel row or footer.
CountColumn(idx) == IF idx = 1 THEN 3 ELSE 2 * idx

\* C9: in a funnel table with a footer the footer entry under each step's
\* count column is the sum of that column over all body rows.
C9_FooterSums ==
  called = "funnelTabulate" =>
    \A idx \in 1..Len(funnelSteps(args.funnelMode)) :
      table.footer[CountColumn(idx)].text =
        formatWithCommas(
          sum([r \in 1..Len(table.body) |-> table.body[r][CountColumn(idx)].csv]))

\* C9 witness: two body rows with a count in the first step's column, summed
\* in the footer.
C9_Witness ==
  /\ called = "funnelTabulate"
  /\ Len(table.body) = 2
  /\ table.body[1][3].csv = 800
  /\ table.body[2][3].csv = 800
  /\ table.footer[3].text = "1,600"

\* C10: toStepCounts yields percentOfFirst = 0 for every step when the count of
\* the mode's first step is 0, and a percentage against a zero baseline is 0,
\* never NaN or infinite.
C10_ZeroBaselineYieldsZero ==
  called = "toStepCounts" =>
    LET steps == funnelSteps(args.funnelMode)
        row == data[args.row]
    IN  \A idx \in 1..Len(stepCounts) :
          /\ stepCount(row, steps[1].key) = 0 =>
               stepCounts[idx].percentOfFirst = Zero
          /\ (idx > 1 /\ stepCount(row, steps[idx - 1].key) = 0) =>
               stepCounts[idx].percentOfPrevious = Zero
          /\ stepCounts[idx].percentOfFirst.den # 0
          /\ stepCounts[idx].percentOfPrevious.den # 0

\* The fullyRegisteredUsers of the input rows S, summed.
RECURSIVE CountOverField(_)
CountOverField(S) ==
  IF S = {} THEN 0
  ELSE LET i == CHOOSE i \in S : TRUE
       IN  data[i].fullyRegisteredUsers + CountOverField(S \ {i})

\* The rows of the input that fall into the week of result row w.
WeekOf(w) == {i \in 1..Len(data) : getStartOfWeek(data[i].date) = result[w].date}

\* C11: formatData yields value 0 for every week whose summed
\* fullyRegisteredUsers is 0: never NaN and never an infinite value.
C11_ZeroDenominatorYieldsZero ==
  called = "formatData" =>
    \A w \in 1..Len(result) :
      CountOverField(WeekOf(w)) = 0 => result[w].value = Zero

\* The input rows of an issuer.
RowsOf(issuer) == {i \in 1..Len(data) : data[i].issuer = issuer}

\* The counts of a step over the input rows S, summed; a row without the step
\* counts 0.
StepTotal(S, key) ==
  LET idx == indexSeq(S)
  IN  sum([m \in 1..Len(idx) |->
             IF key \in DOMAIN data[idx[m]] THEN data[idx[m]][key] ELSE 0])

\* C12: aggregate returns exactly one row per distinct issuer of its input;
\* for every issuer and every step the count is the sum of that step over the
\* issuer's input rows, a missing step counting 0; so for every step the total
\* over the output equals the total over the input.
C12_OneRowPerIssuerWithStepSums ==
  called = "aggregate" =>
    /\ \A i \in 1..Len(data) :
         Cardinality({r \in 1..Len(result) : result[r].issuer = data[i].issuer}) = 1
    /\ \A r \in 1..Len(result) :
         /\ RowsOf(result[r].issuer) # {}
         /\ \A key \in stepKeys :
              result[r][key] = StepTotal(RowsOf(result[r].issuer), key)
    /\ \A key \in stepKeys :
         sum([r \in 1..Len(result) |-> result[r][key]])
           = StepTotal(1..Len(data), key)

\* Two rows of one issuer, the first without any step, are summed into one.
C12_Witness ==
  /\ called = "aggregate"
  /\ Len(data) = 2
  /\ data[1].issuer = data[2].issuer
  /\ "verified" \notin DOMAIN data[1]
  /\ "verified" \in DOMAIN data[2] /\ data[2].verified = 300
  /\ Len(result) = 1
  /\ result[1].verified = 300
  /\ result[1].welcome = data[2].welcome

\* filter((d) => d.agency === agency) on rows
OfAgency(rows, agency) == SelectSeq(rows, LAMBDA d : d.agency = agency)

\* C13: for any agency present in the data, aggregating all rows and then
\* keeping the aggregated rows of that agency gives the same rows and step
\* sums as keeping the raw rows of that agency and then aggregating, also
\* when one issuer has raw rows of different agencies.
C13_AggregateCommutesWithAgencyFilter ==
  called = "aggregate" =>
    \A i \in 1..Len(data) :
      OfAgency(result, data[i].agency) = aggregate(OfAgency(data, data[i].agency))

\* The fetched rows that a normalizer was called on.
Fetched == IF called = "process" THEN data.results ELSE data

\* The normalized row has the fetched row's value of the field, or the
\* default where the fetched row has none or an empty one.
Normalized(raw, row, field, default) ==
  /\ field \in DOMAIN row
  /\ row[field] = (IF field \in DOMAIN raw /\ raw[field] # "" THEN raw[field]
                    ELSE default)

\* C14: each row normalizer (process of daily-auths, process of
\* daily-dropoffs) replaces a missing or empty agency by "(No Agency)", issuer
\* by "(No Issuer)" and friendly name by "(No App)" and leaves present values
\* unchanged, for every fetched row.
C14_NormalizersDefaultAllThree ==
  called \in {"process", "dropoffsProcess"} =>
    /\ Len(result) = Len(Fetched)
    /\ \A i \in 1..Len(result) :
         /\ Normalized(Fetched[i], result[i], "agency", "(No Agency)")
         /\ Normalized(Fetched[i], result[i], "issuer", "(No Issuer)")
         /\ Normalized(Fetched[i], result[i], "friendly_name", "(No App)")

\* The fetches of the report of the UTC day that starts at midnight.
FetchesOf(midnight) == {i \in 1..Len(fetches) : fetches[i].date = midnight}

\* The midnights of the UTC days from the day of start through the day of
\* finish.
DaysThrough(start, finish) ==
  {k * TicksPerDay : k \in (start \div TicksPerDay)..(finish \div TicksPerDay)}

\* The UTC midnights at or after start and before finish.
MidnightsWithin(start, finish) ==
  {t \in start..(finish - 1) : t % TicksPerDay = 0}

\* C15: for start <= end, loadData issues exactly one fetch for each UTC day
\* from the start day through the end day inclusive, and none for another day.
C15_OneFetchPerDayThroughEnd ==
  (called = "loadData" /\ context.start <= context.finish) =>
    /\ \A d \in DaysThrough(context.start, context.finish) :
         Cardinality(FetchesOf(d)) = 1
    /\ \A i \in 1..Len(fetches) :
         fetches[i].date \in DaysThrough(context.start, context.finish)

\* C15, amended: loadData issues exactly one fetch for each UTC midnight t
\* with start <= t < finish, for the report and the env it was called with,
\* and no other fetch: the day of finish is not requested when finish is a
\* midnight, and start = finish issues no fetch.
C15_OneFetchPerMidnightBeforeFinish ==
  called = "loadData" =>
    /\ \A t \in MidnightsWithin(context.start, context.finish) :
         Cardinality(FetchesOf(t)) = 1
    /\ \A i \in 1..Len(fetches) :
         /\ fetches[i].date \in MidnightsWithin(context.start, context.finish)
         /\ fetches[i].env = context.env
         /\ fetches[i].reportName = report

\* From the first day to the midnight of the third: the first two days are
\* fetched, the third is not.
C15_Witness ==
  /\ called = "loadData"
  /\ context.start = 0
  /\ context.finish = 2 * TicksPerDay
  /\ Len(fetches) = 2
  /\ fetches[1].date = 0
  /\ fetches[2].date = TicksPerDay
  /\ FetchesOf(context.finish) = {}

\* C16: if the fetch or the parse of any one day fails, the promise of loadData
\* rejects and delivers no rows at all; it resolves only after every day's
\* fetch and parse has succeeded.
C16_OneFailureRejectsTheBatch ==
  /\ (\E i \in 1..Len(fetches) : fetches[i].state = "rejected") =>
       (promise.state = "rejected" /\ promise.value = <<>> /\ data = <<>>)
  /\ promise.state = "fulfilled" =>
       \A i \in 1..Len(fetches) : fetches[i].state = "fulfilled"
  /\ data # <<>> => promise.state = "fulfilled"

\* The first day's report arrived with rows, the second day's fetch failed.
C16_Witness ==
  /\ report = "daily-auths-report"
  /\ Len(fetches) = 2
  /\ fetches[1].state = "fulfilled"
  /\ fetches[1].value.results # <<>>
  /\ fetches[2].state = "rejected"
  /\ promise.state = "rejected"
  /\ data = <<>>

\* Where each row of the fetched daily-auths reports comes from, day by day.
Origins ==
  flat([i \in 1..Len(fetches) |->
          [k \in 1..Len(fetches[i].value.results) |-> [fetch |-> i, row |-> k]]])

\* C17: in the daily-auths loadData every fetch of the batch is issued before
\* any response is processed, and in whatever order the responses arrive the
\* result is the rows of each day's report concatenated in ascending day
\* order, each row tagged with the date of the report it came from.
C17_AllIssuedThenRowsInDayOrder ==
  (report = "daily-auths-report" /\ called = "loadData") =>
    /\ Len(fetches) = Len(utcDays(context.start, context.finish))
    /\ \A i, j \in 1..Len(fetches) : i < j => fetches[i].date < fetches[j].date
    /\ promise.state = "fulfilled" =>
         /\ Len(promise.value) = Len(Origins)
         /\ \A m \in 1..Len(Origins) :
              LET from == fetches[Origins[m].fetch].value
                  raw == from.results[Origins[m].row]
                  row == promise.value[m]
              IN  /\ row.date = newDate(from.start)
                  /\ row.count = raw.count
                  /\ row.ial = raw.ial
                  /\ row.issuer = raw.issuer

\* The second day's report arrived before the first day's, both with rows.
C17_Witness ==
  /\ report = "daily-auths-report"
  /\ called = "loadData"
  /\ promise.state = "fulfilled"
  /\ Len(fetches) >= 2
  /\ fetches[2].order < fetches[1].order
  /\ fetches[1].value.results # <<>>
  /\ fetches[2].value.results # <<>>
  /\ promise.value[1].date \div TicksPerDay = fetches[1].date \div TicksPerDay

C19_ShownDataIsOfSelectedFilters ==
  called = "useQuery" => data = <<fetcher(report, context)>>

\* The string is a decimal numeral: digits, after an optional sign.
IsNumber(str) ==
  LET digits == IF str # <<>> /\ Head(str) = "-" THEN Tail(str) ELSE str
  IN  /\ digits # <<>>
      /\ \A i \in 1..Len(digits) : \E d \in 1..Len(Digits) : digits[i] = Digits[d]

\* C20: whatever the ial query parameter (absent, empty, not a number, any
\* number), the ial that ReportRoute puts in the filter context is 1 or 2, and
\* it is the default 1 when the parameter is absent or not a number; the env
\* is "prod" when the env parameter is absent or empty.
C20_IalIsOneOrTwo ==
  called = "ReportRoute" =>
    /\ context.ial \in {1, 2}
    /\ ("ial" \notin DOMAIN props \/ ~IsNumber(props.ial)) => context.ial = 1
    /\ ("env" \notin DOMAIN props \/ props.env = "") => context.env = "prod"

\* The four known types of a data series.
KnownTypes ==
  {"TOTAL_USERS", "FULLY_REGISTERED_USERS",
   "TOTAL_USERS_CUMULATIVE", "FULLY_REGISTERED_USERS_CUMULATIVE"}

\* C21: formatting the legend or selecting the series to display raises an
\* error for any data-series type other than the four known ones, instead of
\* ignoring it or giving it a label; none of the four known types raises.
C21_UnknownTypeThrows ==
  /\ called = "tickFormat" =>
       /\ result.threw <=> data[args.row].type \notin KnownTypes
       /\ ~result.threw => result.value \in {"Total Users", "Full Registered Users"}
  /\ called = "filter" =>
       /\ result.threw <=> \E i \in 1..Len(data) : data[i].type \notin KnownTypes
       /\ ~result.threw =>
            \A i \in 1..Len(result.value) : result.value[i].type \in KnownTypes

\* The legend is asked for the label of an unknown type, after a known one.
C21_Witness ==
  /\ called = "tickFormat"
  /\ Len(data) = 2
  /\ data[1].type \in KnownTypes
  /\ args.row = 2
  /\ data[2].type \notin KnownTypes
  /\ result.threw

\* C22: the rows that aggregate returns are in ascending order of agency and,
\* within an agency, of friendly name, whatever the order and content of the
\* input rows.
C22_AggregateOrderedByAgencyThenName ==
  called = "aggregate" =>
    \A r, q \in 1..Len(result) :
      r < q =>
        \/ Rank(result[r].agency) < Rank(result[q].agency)
        \/ /\ result[r].agency = result[q].agency
           /\ Rank(result[r].friendly_name) <= Rank(result[q].friendly_name)

\* C22, amended: the rows that aggregate returns are in ascending order of
\* issuer, one row to an issuer, whatever the order and content of the input
\* rows.
C22_AggregateOrderedByIssuer ==
  called = "aggregate" =>
    \A r, q \in 1..Len(result) :
      r < q => Rank(result[r].issuer) < Rank(result[q].issuer)

\* The input has the later issuer first, under the earlier agency and with the
\* earlier friendly name: the output is in order of issuer all the same.
C22_Witness ==
  /\ called = "aggregate"
  /\ Len(data) = 2
  /\ Rank(data[1].issuer) > Rank(data[2].issuer)
  /\ Rank(data[1].agency) < Rank(data[2].agency)
  /\ Rank(data[1].friendly_name) < Rank(data[2].friendly_name)
  /\ Len(result) = 2
  /\ result[1].issuer = data[2].issuer
  /\ result[2].issuer = data[1].issuer

\* The funnel in its fixed order, and the part of it that a mode shows.
Funnel ==
  <<"welcome", "agreement", "capture_document", "cap_doc_submit", "ssn",
    "verify_info", "verify_submit", "phone", "encrypt", "personal_key",
    "verified">>

FunnelOf(funnelMode) ==
  IF funnelMode = "overall" THEN Funnel ELSE SubSeq(Funnel, 4, Len(Funnel))

\* C23: toStepCounts returns the steps in the fixed funnel order, in OVERALL
\* mode all 11 from welcome on, in BLANKET mode the 8 from cap_doc_submit
\* through verified; in both modes percentOfFirst is taken against the count
\* of the first step returned and percentOfPrevious of a step against the
\* count of the step returned just before it.
C23_StepsInFunnelOrderWithBaselines ==
  called = "toStepCounts" =>
    LET keys == FunnelOf(args.funnelMode)
        row == data[args.row]
        Count(idx) == IF keys[idx] \in DOMAIN row THEN row[keys[idx]] ELSE 0
    IN  /\ Len(stepCounts) = (IF args.funnelMode = "overall" THEN 11 ELSE 8)
        /\ Len(stepCounts) = Len(keys)
        /\ \A idx \in 1..Len(stepCounts) :
             /\ stepCounts[idx].step = keys[idx]
             /\ stepCounts[idx].count = Count(idx)
             /\ stepCounts[idx].percentOfFirst = orZero(divide(Count(idx), Count(1)))
             /\ idx > 1 =>
                  stepCounts[idx].percentOfPrevious
                    = orZero(divide(Count(idx), Count(idx - 1)))

\* BLANKET mode on a row that has a welcome count: the baseline is the count
\* of cap_doc_submit, and ssn is compared to cap_doc_submit before it.
C23_Witness ==
  /\ called = "toStepCounts"
  /\ args.funnelMode = "blanket"
  /\ "welcome" \in DOMAIN data[args.row]
  /\ data[args.row].welcome = 800
  /\ data[args.row].cap_doc_submit = 600
  /\ data[args.row].ssn = 300
  /\ data[args.row].verified = 300
  /\ Len(stepCounts) = 8
  /\ stepCounts[1].step = "cap_doc_submit"
  /\ stepCounts[2].step = "ssn"
  /\ stepCounts[2].percentOfPrevious = divide(1, 2)
  /\ stepCounts[8].step = "verified"
  /\ stepCounts[8].percentOfFirst = divide(1, 2)

\* C24: in tabulateSumByAgency there is exactly one body row per (agency, ial)
\* pair of the filtered rows, its trailing Total is the sum of count over the
\* filtered rows of that agency and ial, and so the Totals sum to the count of
\* all filtered rows: nothing is dropped or counted twice, also when two rows
\* of one UTC day carry different timestamps.
C24_TotalsCountEveryRowOnce ==
  called = "tabulateSumByAgency" =>
    /\ \A i \in Matching :
         Cardinality({r \in 1..Len(table.body) :
                        /\ table.body[r][1].text = data[i].agency
                        /\ table.body[r][2] = ToString(data[i].ial)}) = 1
    /\ \A r \in 1..Len(table.body) :
         LET row == table.body[r]
         IN  /\ AgencyGroupOf(row) # {}
             /\ row[Len(row)] = CountOver(AgencyGroupOf(row))
    /\ sum([r \in 1..Len(table.body) |-> table.body[r][Len(table.body[r])]])
         = CountOver(Matching)
====
